---- MODULE Spec2Model ----
(***************************************************************************)
(* Model of the task collection engine of the Todo-List app:               *)
(*   src/src/App.tsx                       state, effects and handlers     *)
(*   src/src/components/DashboardStats.tsx taskUtils (generateId, ...)     *)
(*   src/src/components/TaskCard.tsx       the controls that issue intents *)
(*                                                                         *)
(* Time is counted in abstract clock ticks (one tick = one distinct value  *)
(* of Date.now()).  A Date object is modelled by its instant, a number.    *)
(* A date in its JSON form (Date.prototype.toJSON, an ISO-8601 string) is  *)
(* the tagged pair <<"iso", instant>>, and the date string of the creation *)
(* form is the record [ymd |-> day].  A string that the code searches or   *)
(* compares (title, description, search query) is the sequence of its      *)
(* UTF-16 code units.                                                      *)
(***************************************************************************)
EXTENDS Integers, Sequences, FiniteSets, TLC

\* ---------------------------------------------------------------- bounds
\* The collection is unbounded in the code; handleCreateTask is cut off here.
MaxTasks == 2
\* Date.now() takes the values 0..MaxClock.
MaxClock == 1
\* Math.random().toString(36).substr(2, 9) takes the values 1..MaxRand.
MaxRand == 2
\* The slider values tried are 0..Edge and (100 - Edge)..100.
Edge == 1
\* The largest collection whose statistics are computed.
MaxTotal == 40
\* The largest collection that is searched, filtered and sorted.
MaxListed == 3

VARIABLES
    tasks,      \* App.tsx:10  the React state `tasks`
    rendered,   \* the `tasks` of the last render, which the handlers close over
    storage,    \* localStorage slot 'tasks'
    phase,      \* "mounted": first render done, effects pending;
                \* "idle": rendered and saved; "dirty": setTasks called,
                \* re-render pending; "unrenderable": as "dirty", with a
                \* task that cannot be rendered; "crashed": unmounted
    now,        \* the value of Date.now()
    call,       \* history: the last handler call of this session
    ui,         \* DashboardStats.tsx:95-98  the React state of TaskList
    dashboard,  \* App.tsx:108  `stats` of the last render of App
    list,       \* DashboardStats.tsx:104-111  the last render of TaskList
    download,   \* the file that handleExportTasks last handed to the browser
    background  \* the App instance of a second tab on the same origin: its
                \* tasks, rendered, phase, call, ui, dashboard and list

vars == <<tasks, rendered, storage, phase, now, call, ui, dashboard, list,
          download, background>>

\* What the handlers of App leave alone.
screen == <<ui, dashboard, list, download>>

\* ------------------------------------------------------------ data model
Clock == 0..MaxClock

\* The strings generateId can return: `${Date.now()}-${random}`.
Ids == Clock \X (1..MaxRand)

\* <input type="range" min="0" max="100">: parseInt(e.target.value)
SliderValues == 0..100

SliderTried == (0..Edge) \cup ((100 - Edge)..100)

\* A string is the sequence of its UTF-16 code units.  Str gives the string
\* that is written with the given characters: letters and spaces.
Lowers == << "a", "b", "c", "d", "e", "f", "g", "h", "i", "j", "k", "l", "m",
             "n", "o", "p", "q", "r", "s", "t", "u", "v", "w", "x", "y", "z" >>

Uppers == << "A", "B", "C", "D", "E", "F", "G", "H", "I", "J", "K", "L", "M",
             "N", "O", "P", "Q", "R", "S", "T", "U", "V", "W", "X", "Y", "Z" >>

\* U+0061 is "a", U+0041 is "A", U+0020 is the space.
CodeUnit(char) ==
    IF \E k \in DOMAIN Lowers : Lowers[k] = char
      THEN 96 + (CHOOSE k \in DOMAIN Lowers : Lowers[k] = char)
    ELSE IF \E k \in DOMAIN Uppers : Uppers[k] = char
      THEN 64 + (CHOOSE k \in DOMAIN Uppers : Uppers[k] = char)
    ELSE 32

Str(chars) == [i \in 1..Len(chars) |-> CodeUnit(chars[i])]

\* String.prototype.toLowerCase: "A".."Z" become "a".."z"
toLowerCase(str) ==
    [i \in 1..Len(str) |-> IF str[i] \in 65..90 THEN str[i] + 32 ELSE str[i]]

\* String.prototype.includes
includes(str, searchString) ==
    \E k \in 0..(Len(str) - Len(searchString)) :
        SubSeq(str, k + 1, k + Len(searchString)) = searchString

\* String.prototype.localeCompare on lower-cased strings of letters and
\* spaces: -1, 0 or 1.  On these characters the default collation is the
\* order of the code units: the space, then "a" to "z".
RECURSIVE localeCompare(_, _)
localeCompare(a, b) ==
    IF a = <<>> THEN (IF b = <<>> THEN 0 ELSE -1)
    ELSE IF b = <<>> THEN 1
    ELSE IF Head(a) < Head(b) THEN -1
    ELSE IF Head(a) > Head(b) THEN 1
    ELSE localeCompare(Tail(a), Tail(b))

\* TaskFormData as submitted by TaskModal after validate():
\* title non-blank, dueDate not before startDate.
BuyMilkForm ==
    [title |-> Str(<<"B", "u", "y", " ", "m", "i", "l", "k">>),
     description |-> <<>>,
     startDate |-> [ymd |-> 0], dueDate |-> [ymd |-> 1],
     category |-> "personal", priority |-> "low"]

WriteReportForm ==
    [title |-> Str(<<"W", "r", "i", "t", "e", " ", "r", "e", "p", "o", "r", "t">>),
     description |-> Str(<<"q", "u", "a", "r", "t", "e", "r", "l", "y">>),
     startDate |-> [ymd |-> 0], dueDate |-> [ymd |-> 0],
     category |-> "work", priority |-> "high"]

FormInputs == {BuyMilkForm, WriteReportForm}

\* new Date("YYYY-MM-DD"): the instant of that day
DateOfForm(s) == s.ymd

\* Date.prototype.toJSON / toISOString, as JSON.stringify applies it
ToISO(t) == <<"iso", t>>

\* new Date(isoString)
DateOfISO(s) == s[2]

\* ------------------------------------------------------------- taskUtils
\* generateId, with Date.now() = t and the random suffix r
generateId(t, r) == <<t, r>>

\* ------------------------------------------------------- pure task steps
\* The object literal of handleCreateTask; c and u are the values of the
\* two `new Date()` expressions (createdAt, updatedAt).
NewTask(formData, id, c, u) ==
    [ id |-> id,
      title |-> formData.title,
      description |-> formData.description,
      startDate |-> DateOfForm(formData.startDate),
      dueDate |-> DateOfForm(formData.dueDate),
      completionPercentage |-> 0,
      status |-> "pending",
      category |-> formData.category,
      priority |-> formData.priority,
      isCompleted |-> FALSE,
      createdAt |-> c,
      updatedAt |-> u ]

\* Variants of ToggledTask with one slip each.
\* completionPercentage is left alone when the task becomes completed.
ToggledTask_KeepsProgress(task, t) ==
    LET isCompleted == ~task.isCompleted IN
    [ task EXCEPT
        !.isCompleted = isCompleted,
        !.status = IF isCompleted THEN "completed"
                   ELSE IF task.completionPercentage > 0 THEN "in_progress"
                   ELSE "pending",
        !.updatedAt = t ]

\* updatedAt is not refreshed.
ToggledTask_StaleUpdatedAt(task, t) ==
    LET isCompleted == ~task.isCompleted IN
    [ task EXCEPT
        !.isCompleted = isCompleted,
        !.completionPercentage =
            IF isCompleted THEN 100 ELSE task.completionPercentage,
        !.status = IF isCompleted THEN "completed"
                   ELSE IF task.completionPercentage > 0 THEN "in_progress"
                   ELSE "pending" ]

\* The task is marked completed instead of being flipped.
ToggledTask_AlwaysCompletes(task, t) ==
    [ task EXCEPT
        !.isCompleted = TRUE,
        !.completionPercentage = 100,
        !.status = "completed",
        !.updatedAt = t ]

\* Unchecking puts the task back to 0% and pending.
ToggledTask_ResetsOnUncheck(task, t) ==
    LET isCompleted == ~task.isCompleted IN
    [ task EXCEPT
        !.isCompleted = isCompleted,
        !.completionPercentage = IF isCompleted THEN 100 ELSE 0,
        !.status = IF isCompleted THEN "completed" ELSE "pending",
        !.updatedAt = t ]

\* The object returned by the map callback of handleToggleComplete for a
\* task whose id matches; t is the value of `new Date()`.
ToggledTask(task, t) ==
    LET isCompleted == ~task.isCompleted IN
    [ task EXCEPT
        !.isCompleted = isCompleted,
        !.completionPercentage =
            IF isCompleted THEN 100 ELSE task.completionPercentage,
        !.status = IF isCompleted THEN "completed"
                   ELSE IF task.completionPercentage > 0 THEN "in_progress"
                   ELSE "pending",
        !.updatedAt = t ]

\* Variant of ProgressedTask: isCompleted is only ever raised
\* (task.isCompleted || progress === 100).
ProgressedTask_StickyFlag(task, progress, t) ==
    LET status == IF progress = 100 THEN "completed"
                  ELSE IF progress > 0 THEN "in_progress" ELSE "pending" IN
    [ task EXCEPT
        !.completionPercentage = progress,
        !.status = status,
        !.isCompleted = (task.isCompleted \/ progress = 100),
        !.updatedAt = t ]

\* Variant of ProgressedTask: the status is not computed again.
ProgressedTask_StaleStatus(task, progress, t) ==
    [ task EXCEPT
        !.completionPercentage = progress,
        !.isCompleted = (progress = 100),
        !.updatedAt = t ]

\* The object returned by the map callback of handleUpdateProgress for a
\* task whose id matches; t is the value of `new Date()`.
ProgressedTask(task, progress, t) ==
    LET status == IF progress = 100 THEN "completed"
                  ELSE IF progress > 0 THEN "in_progress" ELSE "pending" IN
    [ task EXCEPT
        !.completionPercentage = progress,
        !.status = status,
        !.isCompleted = (progress = 100),
        !.updatedAt = t ]

\* [...tasks, newTask]
AppendTask(ts, newTask) == Append(ts, newTask)

\* Variant of WithoutId: the first task is dropped (a splice at a
\* findIndex that is not checked), whatever its id.
WithoutId_DropsFirst(ts, id) ==
    IF ts = <<>> THEN ts ELSE Tail(ts)

\* tasks.filter(task => task.id !== id)
WithoutId(ts, id) ==
    LET keep(task) == task.id # id IN SelectSeq(ts, keep)

\* Variant of ToggleAll: the id test is missing, every task is toggled.
ToggleAll_Every(ts, id, t) ==
    [i \in 1..Len(ts) |-> ToggledTask(ts[i], t)]

\* tasks.map(task => task.id === id ? {toggled} : task).  Every matching task
\* is given the clock value of the call (the callback's `new Date()` is read
\* once per matching task; with distinct ids that is one read).
ToggleAll(ts, id, t) ==
    [i \in 1..Len(ts) |-> IF ts[i].id = id THEN ToggledTask(ts[i], t)
                          ELSE ts[i]]

\* Variant of ProgressAll: the updated task is taken out and put back at
\* the end ([...tasks.filter(..), updated]).
ProgressAll_MovesToEnd(ts, id, progress, t) ==
    LET other(task) == task.id # id
        match(task) == task.id = id
        updated == SelectSeq(ts, match)
    IN  SelectSeq(ts, other) \o
        [i \in 1..Len(updated) |-> ProgressedTask(updated[i], progress, t)]

\* tasks.map(task => task.id === id ? {progressed} : task)
ProgressAll(ts, id, progress, t) ==
    [i \in 1..Len(ts) |->
        IF ts[i].id = id THEN ProgressedTask(ts[i], progress, t) ELSE ts[i]]

\* Variant of inProgressTasks: the tasks between 1% and 99% are counted
\* (t => t.completionPercentage > 0 && t.completionPercentage < 100).
inProgressTasks_Partial(ts) ==
    LET partial(t) == t.completionPercentage > 0 /\ t.completionPercentage < 100
    IN  Len(SelectSeq(ts, partial))

\* calculateTaskStats: tasks.filter(t => t.status === 'in_progress').length
inProgressTasks(ts) ==
    LET inProgress(t) == t.status = "in_progress" IN Len(SelectSeq(ts, inProgress))

\* ------------------------------------------------------ Number arithmetic
\* A JavaScript Number is an IEEE-754 binary64 value.  A positive one is
\* sig * 2^exp, where sig is a significand of SigBits bits whose first bit
\* is 1, held as the sequence of its bits, the most significant first.
SigBits == 53

\* +0
Zero == [sig |-> <<>>, exp |-> 0]

\* The binary digits of a natural number.
RECURSIVE Binary(_)
Binary(n) == IF n = 0 THEN <<>> ELSE Append(Binary(n \div 2), n % 2)

\* The natural number of a short sequence of bits.
RECURSIVE Value(_)
Value(bits) ==
    IF bits = <<>> THEN 0
    ELSE 2 * Value(SubSeq(bits, 1, Len(bits) - 1)) + bits[Len(bits)]

Reverse(seq) == [i \in 1..Len(seq) |-> seq[Len(seq) + 1 - i]]

\* bits * m + carry for small naturals m and carry, on bits that are held
\* the least significant first: the low Len(bits) bits of the result and the
\* carry out of them.  The low half is multiplied first and its carry goes
\* into the high half.
RECURSIVE TimesCarry(_, _, _)
TimesCarry(bits, m, carry) ==
    IF bits = <<>> THEN [bits |-> <<>>, carry |-> carry]
    ELSE IF Len(bits) = 1
      THEN [bits |-> <<(bits[1] * m + carry) % 2>>,
            carry |-> (bits[1] * m + carry) \div 2]
    ELSE LET h == Len(bits) \div 2
             low == TimesCarry(SubSeq(bits, 1, h), m, carry)
             high == TimesCarry(SubSeq(bits, h + 1, Len(bits)), m, low.carry)
         IN  [bits |-> low.bits \o high.bits, carry |-> high.carry]

\* The bits of bits * m + carry.
TimesSmall(bits, m, carry) ==
    LET product == TimesCarry(Reverse(bits), m, carry)
    IN  Binary(product.carry) \o Reverse(product.bits)

\* Round to nearest, ties to even: the Number nearest to bits * 2^exp, where
\* bits starts with 1 and has more than SigBits bits, and `inexact` tells
\* whether the exact value has non-zero bits beyond them.
RoundNearestEven(bits, exp, inexact) ==
    LET drop == Len(bits) - SigBits
        kept == SubSeq(bits, 1, SigBits)
        rest == SubSeq(bits, SigBits + 1, Len(bits))
        sticky == inexact \/ \E i \in 2..Len(rest) : rest[i] = 1
        up == rest[1] = 1 /\ (sticky \/ kept[SigBits] = 1)
        sum == IF up THEN TimesSmall(kept, 1, 1) ELSE kept
    IN  IF Len(sum) > SigBits
          THEN [sig |-> SubSeq(sum, 1, SigBits), exp |-> exp + drop + 1]
          ELSE [sig |-> sum, exp |-> exp + drop]

\* The number of doublings that bring c up to t or more.
RECURSIVE LeadShift(_, _)
LeadShift(c, t) == IF c >= t THEN 0 ELSE 1 + LeadShift(2 * c, t)

\* Long division: the first n bits of r / t, for r < 2 * t, and what is
\* left.  The first half of the bits is produced first and what it leaves
\* goes into the second half.
RECURSIVE QuotientBits(_, _, _)
QuotientBits(r, t, n) ==
    IF n = 0 THEN [bits |-> <<>>, rem |-> r]
    ELSE IF n = 1
      THEN [bits |-> <<IF r >= t THEN 1 ELSE 0>>,
            rem |-> 2 * (IF r >= t THEN r - t ELSE r)]
    ELSE LET h == n \div 2
             first == QuotientBits(r, t, h)
             second == QuotientBits(first.rem, t, n - h)
         IN  [bits |-> first.bits \o second.bits, rem |-> second.rem]

\* c / t for integers 0 <= c <= t, 0 < t
Divide(c, t) ==
    IF c = 0 THEN Zero
    ELSE LET s == LeadShift(c, t)
             q == QuotientBits(c * 2^s, t, SigBits + 1)
         IN  RoundNearestEven(q.bits, 0 - s - SigBits, q.rem # 0)

\* x * m for a Number x and a small natural m > 1
Times(x, m) ==
    IF x = Zero THEN Zero
    ELSE RoundNearestEven(TimesSmall(x.sig, m, 0), x.exp, FALSE)

\* Math.round(x) for 0 <= x < 2^31: the nearest integer, a half going up.
MathRound(x) ==
    IF x = Zero THEN 0
    ELSE LET n == Len(x.sig) + x.exp
             whole == IF n <= 0 THEN 0 ELSE Value(SubSeq(x.sig, 1, n))
             half == IF n + 1 \in 1..Len(x.sig) THEN x.sig[n + 1] ELSE 0
         IN  whole + half

\* Math.round((completedTasks / totalTasks) * 100), for every total up to
\* MaxTotal
Percentages ==
    [total \in 1..MaxTotal |->
        [completed \in 0..total |->
            MathRound(Times(Divide(completed, total), 100))]]

\* ------------------------------------------------------------- statistics
\* Variant of calculateTaskStats: the completed tasks are counted by their
\* percentage (t.completionPercentage === 100).
calculateTaskStats_CompletedByPercent(ts, t) ==
    LET full(x) == x.completionPercentage = 100
        pending(x) == x.status = "pending"
        overdue(x) == ~x.isCompleted /\ x.dueDate < t
        totalTasks == Len(ts)
        completedTasks == Len(SelectSeq(ts, full))
    IN  [ totalTasks |-> totalTasks,
          completedTasks |-> completedTasks,
          inProgressTasks |-> inProgressTasks(ts),
          pendingTasks |-> Len(SelectSeq(ts, pending)),
          overdueTasks |-> Len(SelectSeq(ts, overdue)),
          completionPercentage |->
              IF totalTasks > 0 THEN Percentages[totalTasks][completedTasks]
              ELSE 0 ]

\* calculateTaskStats; t is the value of `new Date()`
calculateTaskStats(ts, t) ==
    LET isCompleted(x) == x.isCompleted
        pending(x) == x.status = "pending"
        overdue(x) == ~x.isCompleted /\ x.dueDate < t
        totalTasks == Len(ts)
        completedTasks == Len(SelectSeq(ts, isCompleted))
    IN  [ totalTasks |-> totalTasks,
          completedTasks |-> completedTasks,
          inProgressTasks |-> inProgressTasks(ts),
          pendingTasks |-> Len(SelectSeq(ts, pending)),
          overdueTasks |-> Len(SelectSeq(ts, overdue)),
          completionPercentage |->
              IF totalTasks > 0 THEN Percentages[totalTasks][completedTasks]
              ELSE 0 ]

\* Variant of isTaskOverdue: the test of isCompleted is missing.
isTaskOverdue_IgnoresCompletion(task, t) == task.dueDate < t

\* isTaskOverdue; t is the value of `new Date()`
isTaskOverdue(task, t) == ~task.isCompleted /\ task.dueDate < t

\* App.tsx:108, 131: the statistics that App hands to DashboardStats when it
\* renders at clock value t
Dashboard(ts, t) == [stats |-> calculateTaskStats(ts, t), at |-> t]

\* ---------------------------------------------------------------- TaskList
SortOptions ==
    {"alphabetical", "start_date", "due_date", "completion", "priority"}

StatusFilters == {"all", "pending", "in_progress", "completed"}

\* useState('alphabetical'), useState('asc'), useState(''), useState('all')
InitialUI ==
    [sortBy |-> "alphabetical", sortOrder |-> "asc", searchQuery |-> <<>>,
     filterStatus |-> "all"]

\* Variant of filteredTasks: the search query is not lower-cased.
filteredTasks_QueryAsTyped(ts, searchQuery, filterStatus) ==
    LET keep(task) ==
            LET matchesSearch ==
                    \/ includes(toLowerCase(task.title), searchQuery)
                    \/ includes(toLowerCase(task.description), searchQuery)
                matchesFilter ==
                    filterStatus = "all" \/ task.status = filterStatus
            IN  matchesSearch /\ matchesFilter
    IN  SelectSeq(ts, keep)

\* tasks.filter(task => matchesSearch && matchesFilter)
filteredTasks(ts, searchQuery, filterStatus) ==
    LET keep(task) ==
            LET matchesSearch ==
                    \/ includes(toLowerCase(task.title),
                                toLowerCase(searchQuery))
                    \/ includes(toLowerCase(task.description),
                                toLowerCase(searchQuery))
                matchesFilter ==
                    filterStatus = "all" \/ task.status = filterStatus
            IN  matchesSearch /\ matchesFilter
    IN  SelectSeq(ts, keep)

priorityOrder == [high |-> 3, medium |-> 2, low |-> 1]

\* Variant of comparison: the priorities are compared as the other keys
\* are, priorityOrder[a.priority] - priorityOrder[b.priority].
comparison_PriorityRising(a, b, sortBy, order) ==
    LET c == CASE sortBy = "alphabetical" ->
                    localeCompare(toLowerCase(a.title), toLowerCase(b.title))
               [] sortBy = "start_date" -> a.startDate - b.startDate
               [] sortBy = "due_date" -> a.dueDate - b.dueDate
               [] sortBy = "completion" ->
                    a.completionPercentage - b.completionPercentage
               [] sortBy = "priority" ->
                    priorityOrder[a.priority] - priorityOrder[b.priority]
               [] OTHER -> 0
    IN  IF order = "asc" THEN c ELSE 0 - c

\* Variant of comparison: the order flag is not applied.
comparison_IgnoresOrder(a, b, sortBy, order) ==
    CASE sortBy = "alphabetical" ->
            localeCompare(toLowerCase(a.title), toLowerCase(b.title))
      [] sortBy = "start_date" -> a.startDate - b.startDate
      [] sortBy = "due_date" -> a.dueDate - b.dueDate
      [] sortBy = "completion" ->
            a.completionPercentage - b.completionPercentage
      [] sortBy = "priority" ->
            priorityOrder[b.priority] - priorityOrder[a.priority]
      [] OTHER -> 0

\* The comparator that sortTasks hands to Array.prototype.sort.
comparison(a, b, sortBy, order) ==
    LET c == CASE sortBy = "alphabetical" ->
                    localeCompare(toLowerCase(a.title), toLowerCase(b.title))
               [] sortBy = "start_date" -> a.startDate - b.startDate
               [] sortBy = "due_date" -> a.dueDate - b.dueDate
               [] sortBy = "completion" ->
                    a.completionPercentage - b.completionPercentage
               [] sortBy = "priority" ->
                    priorityOrder[b.priority] - priorityOrder[a.priority]
               [] OTHER -> 0
    IN  IF order = "asc" THEN c ELSE 0 - c

\* Array.prototype.sort with that comparator.  The sort is stable, so the
\* place of an element is one more than the number of elements that the
\* comparator puts before it, or that it holds equal and that came before it.
ArraySort(array, sortBy, order) ==
    LET n == Len(array)
        place == [i \in 1..n |->
                    1 + Cardinality({j \in (1..n) \ {i} :
                          LET c == comparison(array[j], array[i], sortBy, order)
                          IN  c < 0 \/ (c = 0 /\ j < i)})]
    IN  IF place = <<>> THEN <<>>
        ELSE [k \in 1..n |-> array[CHOOSE i \in 1..n : place[i] = k]]

\* Variant of sortTasks: tasks.sort(...) is called on the argument itself.
sortTasks_InPlace(ts, sortBy, order) ==
    [sorted |-> ArraySort(ts, sortBy, order),
     tasks |-> ArraySort(ts, sortBy, order)]

\* sortTasks: `sorted` is the array it returns and `tasks` is its argument
\* as the call leaves it (the sort works on the copy [...tasks]).
sortTasks(ts, sortBy, order) ==
    [sorted |-> ArraySort(ts, sortBy, order), tasks |-> ts]

\* What TaskList renders from its props and state at clock value t:
\* filteredTasks (as sortTasks leaves it), sortedTasks, and for each card of
\* sortedTasks the isOverdue of TaskCard.tsx:13.
TaskList(ts, u, t) ==
    LET sort == sortTasks(filteredTasks(ts, u.searchQuery, u.filterStatus),
                          u.sortBy, u.sortOrder)
    IN  [ filteredTasks |-> sort.tasks,
          sortedTasks |-> sort.sorted,
          isOverdue |-> [i \in 1..Len(sort.sorted) |->
                            isTaskOverdue(sort.sorted[i], t)],
          at |-> t ]

\* No file has been downloaded.
NoDownload == [saved |-> FALSE, day |-> 0, content |-> <<>>]

\* ------------------------------------------------------------ persistence
\* JSON.stringify(tasks): the Date fields become ISO strings.
Serialize(ts) ==
    [i \in 1..Len(ts) |->
        [ ts[i] EXCEPT !.startDate = ToISO(@), !.dueDate = ToISO(@),
                       !.createdAt = ToISO(@), !.updatedAt = ToISO(@) ]]

\* Variant of Revive: updatedAt is rebuilt from the stored createdAt.
Revive_UpdatedFromCreated(json) ==
    [i \in 1..Len(json) |->
        [ json[i] EXCEPT !.startDate = DateOfISO(@), !.dueDate = DateOfISO(@),
                         !.createdAt = DateOfISO(@),
                         !.updatedAt = DateOfISO(json[i].createdAt) ]]

\* JSON.parse(savedTasks).map(task => ({...task, startDate: new Date(..), ..}))
Revive(json) ==
    [i \in 1..Len(json) |->
        [ json[i] EXCEPT !.startDate = DateOfISO(@), !.dueDate = DateOfISO(@),
                         !.createdAt = DateOfISO(@),
                         !.updatedAt = DateOfISO(@) ]]

\* What the slot 'tasks' can hold.  `kind` tells what JSON.parse makes of the
\* text and `json` holds the task objects of the array:
\*   "array"      an array of task objects (what the save effect writes)
\*   "empty"      the empty string
\*   "garbage"    text that is not JSON
\*   "other"      JSON that is not an array (an object, a number, null)
\*   "nullentry"  an array with a null entry besides the objects of `json`
\*   "fieldless"  an array with an entry {} besides the objects of `json`
SlotKinds == {"array", "empty", "garbage", "other", "nullentry", "fieldless"}

\* localStorage.getItem('tasks') === null
NoSlot == [present |-> FALSE, kind |-> "array", json |-> <<>>]

\* localStorage.setItem('tasks', JSON.stringify(tasks))
Slot(json) == [present |-> TRUE, kind |-> "array", json |-> json]

\* Variant of LoadOutcome: the callback reads task?.startDate, so a null
\* entry no longer throws and becomes a task without any field.
LoadOutcome_NullTolerant(slot) ==
    IF ~slot.present \/ slot.kind = "empty" THEN "skipped"
    ELSE IF slot.kind \in {"garbage", "other"} THEN "caught"
    ELSE IF slot.kind \in {"fieldless", "nullentry"} THEN "unrenderable"
    ELSE "set"

\* The load effect (App.tsx:14-30) on a slot:
\*   "skipped"       if (savedTasks) is false: null or ''
\*   "caught"        JSON.parse throws, or parsed.map is not a function, or
\*                   task.startDate throws on a null entry: the catch logs it
\*   "set"           setTasks(the revived tasks)
\*   "unrenderable"  setTasks is called with a task that has no title
\*                   ({...{}, startDate: new Date(undefined), ...} throws
\*                   nothing)
LoadOutcome(slot) ==
    IF ~slot.present \/ slot.kind = "empty" THEN "skipped"
    ELSE IF slot.kind \in {"garbage", "other", "nullentry"} THEN "caught"
    ELSE IF slot.kind = "fieldless" THEN "unrenderable"
    ELSE "set"

\* What the load effect finds in the slot.
Found(slot) == IF slot.present THEN slot.kind ELSE "absent"

\* ---------------------------------------------------------------- history
\* `found` is what the load effect of this session found in the slot; it is
\* kept until the first handler call.
NoCall == [op |-> "none", id |-> <<0, 0>>, progress |-> 0, at |-> 0,
           times |-> 0, before |-> <<>>, found |-> "unread"]

\* The call being handled, read at clock value `now`.  It repeats the last
\* call when it is the same operation on the same id.  Calls are grouped in
\* runs of at most two: `times` is the position of the call in its run and
\* `before` is the collection the first call of the run was applied to.
Record(op, id, progress) ==
    IF call.op = op /\ call.id = id /\ call.times = 1
      THEN [op |-> op, id |-> id, progress |-> progress, at |-> now,
            times |-> 2, before |-> call.before, found |-> "unread"]
      ELSE [op |-> op, id |-> id, progress |-> progress, at |-> now,
            times |-> 1, before |-> rendered, found |-> "unread"]

\* ------------------------------------------------------------- two tabs
\* The state of one App instance (App.tsx:10 and what it renders).  Every tab
\* of the browser that shows the application runs its own instance; the
\* slot 'tasks', the clock and the downloads are shared.
Instance(open, ts, shown, ph, last, u, stats, cards) ==
    [open |-> open, tasks |-> ts, rendered |-> shown, phase |-> ph,
     call |-> last, ui |-> u, dashboard |-> stats, list |-> cards]

\* The instance of a tab at its first render, at clock value t: useState([]).
Mounted(t) ==
    Instance(TRUE, <<>>, <<>>, "mounted", NoCall, InitialUI,
             Dashboard(<<>>, t), TaskList(<<>>, InitialUI, t))

\* No second tab is open.
NoTab == [Mounted(0) EXCEPT !.open = FALSE]

\* ------------------------------------------------------------------ Init
\* A fresh browser profile: nothing stored, the first render has happened
\* with the initial state useState([]), the effects have not yet run.
Init ==
    /\ tasks = <<>>
    /\ rendered = <<>>
    /\ storage = NoSlot
    /\ phase = "mounted"
    /\ now = 0
    /\ call = NoCall
    /\ ui = InitialUI
    /\ dashboard = Dashboard(<<>>, 0)
    /\ list = TaskList(<<>>, InitialUI, 0)
    /\ download = NoDownload
    /\ background = NoTab

\* --------------------------------------------------------------- actions
\* The two effects of the first commit, in source order: the load effect
\* (App.tsx:14-30) and the save effect (App.tsx:32-34), which still sees the
\* initial `tasks` = [].
MountEffects ==
    /\ phase = "mounted"
    /\ LET outcome == LoadOutcome(storage) IN
         IF outcome \in {"set", "unrenderable"}
           THEN /\ tasks' = Revive(storage.json)
                /\ phase' = IF outcome = "set" THEN "dirty" ELSE "unrenderable"
           ELSE /\ tasks' = tasks
                /\ phase' = "idle"
    /\ storage' = Slot(Serialize(rendered))
    /\ call' = [call EXCEPT !.found = Found(storage)]
    /\ UNCHANGED <<rendered, now, screen, background>>

\* The re-render after the load effect has set a task without a title:
\* task.title.toLowerCase() in TaskList (DashboardStats.tsx:105) throws, no
\* error boundary catches it and React unmounts the application.  `tasks`
\* holds the well-formed tasks of the slot only.
RenderCrash ==
    /\ phase = "unrenderable"
    /\ phase' = "crashed"
    /\ UNCHANGED <<tasks, rendered, storage, now, call, screen, background>>

\* Variant of Render: the save effect has no `tasks` dependency and runs on
\* mount only.
Render_NoSave ==
    /\ phase = "dirty"
    /\ rendered' = tasks
    /\ phase' = "idle"
    /\ dashboard' = Dashboard(tasks, now)
    /\ list' = TaskList(tasks, ui, now)
    /\ UNCHANGED <<tasks, storage, now, call, ui, download, background>>

\* Variant of Render: the save effect keeps the stored tasks that this
\* session does not hold, as a merging save would.
Render_MergingSave ==
    /\ phase = "dirty"
    /\ rendered' = tasks
    /\ dashboard' = Dashboard(tasks, now)
    /\ list' = TaskList(tasks, ui, now)
    /\ storage' = Slot(Serialize(tasks) \o
                         SelectSeq(storage.json,
                                   LAMBDA t : \A i \in 1..Len(tasks) :
                                                 tasks[i].id # t.id))
    /\ phase' = "idle"
    /\ UNCHANGED <<tasks, now, call, ui, download, background>>

\* React re-renders with the new state: App computes `stats`, TaskList its
\* cards, and the save effect runs because the `tasks` dependency is a new
\* array.
Render ==
    /\ phase = "dirty"
    /\ rendered' = tasks
    /\ dashboard' = Dashboard(tasks, now)
    /\ list' = TaskList(tasks, ui, now)
    /\ storage' = Slot(Serialize(tasks))
    /\ phase' = "idle"
    /\ UNCHANGED <<tasks, now, call, ui, download, background>>

\* Date.now() advances.
Tick ==
    /\ now < MaxClock
    /\ now' = now + 1
    /\ UNCHANGED <<tasks, rendered, storage, phase, call, screen, background>>

\* handleCreateTask (App.tsx:36-53).  generateId reads the clock, then the
\* two `new Date()` expressions read it again, each possibly later.
handleCreateTask(formData, r, c, u) ==
    /\ phase = "idle"
    /\ Len(rendered) < MaxTasks
    /\ now <= c /\ c <= u
    /\ LET id == generateId(now, r) IN
        /\ tasks' = AppendTask(rendered, NewTask(formData, id, c, u))
        /\ call' = Record("create", id, 0)
    /\ now' = u
    /\ phase' = "dirty"
    /\ UNCHANGED <<rendered, storage, screen, background>>

\* handleDeleteTask (App.tsx:55-59); confirmed is the answer to window.confirm.
handleDeleteTask(id, confirmed) ==
    /\ phase = "idle"
    /\ IF confirmed
         THEN /\ tasks' = WithoutId(rendered, id)
              /\ phase' = "dirty"
         ELSE UNCHANGED <<tasks, phase>>
    /\ call' = Record(IF confirmed THEN "delete" ELSE "declined", id, 0)
    /\ UNCHANGED <<rendered, storage, now, screen, background>>

\* handleToggleComplete (App.tsx:61-76)
handleToggleComplete(id) ==
    /\ phase = "idle"
    /\ tasks' = ToggleAll(rendered, id, now)
    /\ call' = Record("toggle", id, 0)
    /\ phase' = "dirty"
    /\ UNCHANGED <<rendered, storage, now, screen, background>>

\* handleUpdateProgress (App.tsx:78-93)
handleUpdateProgress(id, progress) ==
    /\ phase = "idle"
    /\ tasks' = ProgressAll(rendered, id, progress, now)
    /\ call' = Record("progress", id, progress)
    /\ phase' = "dirty"
    /\ UNCHANGED <<rendered, storage, now, screen, background>>

\* The user closes the application and opens it again: a new App instance
\* mounts with useState([]) over the same localStorage and renders once.
Reload ==
    /\ phase = "idle"
    /\ tasks' = <<>>
    /\ rendered' = <<>>
    /\ phase' = "mounted"
    /\ call' = [NoCall EXCEPT !.op = "reload", !.before = rendered]
    /\ ui' = InitialUI
    /\ dashboard' = Dashboard(<<>>, now)
    /\ list' = TaskList(<<>>, InitialUI, now)
    /\ UNCHANGED <<storage, now, download, background>>

\* What a state change of TaskList leaves alone: App does not render again.
app == <<tasks, rendered, storage, phase, now, call, dashboard, download,
         background>>

\* setSortBy(e.target.value) (DashboardStats.tsx:147) and the re-render of
\* TaskList
setSortBy(value) ==
    /\ phase = "idle"
    /\ value # ui.sortBy
    /\ ui' = [ui EXCEPT !.sortBy = value]
    /\ list' = TaskList(rendered, ui', now)
    /\ UNCHANGED app

\* toggleSortOrder (DashboardStats.tsx:100-102)
toggleSortOrder ==
    /\ phase = "idle"
    /\ ui' = [ui EXCEPT !.sortOrder = IF ui.sortOrder = "asc" THEN "desc"
                                      ELSE "asc"]
    /\ list' = TaskList(rendered, ui', now)
    /\ UNCHANGED app

\* setSearchQuery(e.target.value) (DashboardStats.tsx:123)
setSearchQuery(value) ==
    /\ phase = "idle"
    /\ value # ui.searchQuery
    /\ ui' = [ui EXCEPT !.searchQuery = value]
    /\ list' = TaskList(rendered, ui', now)
    /\ UNCHANGED app

\* setFilterStatus(e.target.value) (DashboardStats.tsx:133)
setFilterStatus(value) ==
    /\ phase = "idle"
    /\ value # ui.filterStatus
    /\ ui' = [ui EXCEPT !.filterStatus = value]
    /\ list' = TaskList(rendered, ui', now)
    /\ UNCHANGED app

\* handleExportTasks (App.tsx:95-106): the browser saves a file named after
\* the day, with JSON.stringify(tasks, null, 2) in it.
handleExportTasks ==
    /\ phase = "idle"
    /\ download' = [saved |-> TRUE, day |-> now,
                    content |-> Serialize(rendered)]
    /\ UNCHANGED <<tasks, rendered, storage, phase, now, call, ui, dashboard,
                   list, background>>

\* The user opens the application in a second tab and works there: the
\* session so far goes on in the background.
OpenTab ==
    /\ ~background.open
    /\ background' = Instance(TRUE, tasks, rendered, phase, call, ui,
                              dashboard, list)
    /\ tasks' = Mounted(now).tasks
    /\ rendered' = Mounted(now).rendered
    /\ phase' = Mounted(now).phase
    /\ call' = Mounted(now).call
    /\ ui' = Mounted(now).ui
    /\ dashboard' = Mounted(now).dashboard
    /\ list' = Mounted(now).list
    /\ UNCHANGED <<storage, now, download>>

\* The user goes over to the other tab.
SwitchTab ==
    /\ background.open
    /\ background' = Instance(TRUE, tasks, rendered, phase, call, ui,
                              dashboard, list)
    /\ tasks' = background.tasks
    /\ rendered' = background.rendered
    /\ phase' = background.phase
    /\ call' = background.call
    /\ ui' = background.ui
    /\ dashboard' = background.dashboard
    /\ list' = background.list
    /\ UNCHANGED <<storage, now, download>>

\* The controls of card i of the list (DashboardStats.tsx:201-209).
\* TaskCard.tsx:45  the trash button: onDelete(task.id)
onDelete(i, confirmed) ==
    /\ i \in 1..Len(list.sortedTasks)
    /\ handleDeleteTask(list.sortedTasks[i].id, confirmed)

\* TaskCard.tsx:23  the checkbox: onToggleComplete(task.id)
onToggleComplete(i) ==
    /\ i \in 1..Len(list.sortedTasks)
    /\ handleToggleComplete(list.sortedTasks[i].id)

\* TaskCard.tsx:100-108  the slider: onUpdateProgress(task.id, parseInt(..)).
\* A disabled input fires no event.
onUpdateProgress(i, progress) ==
    /\ i \in 1..Len(list.sortedTasks)
    /\ ~list.sortedTasks[i].isCompleted
    /\ handleUpdateProgress(list.sortedTasks[i].id, progress)

Create == \E f \in FormInputs, r \in 1..MaxRand, c \in Clock, u \in Clock :
            handleCreateTask(f, r, c, u)

Delete == \E id \in Ids, confirmed \in BOOLEAN : handleDeleteTask(id, confirmed)

Toggle == \E id \in Ids : handleToggleComplete(id)

Progress == \E id \in Ids, p \in SliderTried : handleUpdateProgress(id, p)

Next ==
    \/ MountEffects
    \/ Render
    \/ Tick
    \/ Create
    \/ Delete
    \/ Toggle
    \/ Progress
    \/ Reload

Spec == Init /\ [][Next]_vars

\* ------------------------------------------------- sessions over any slot
\* The first session of the model starts over a slot that something else
\* wrote: another version of the application, the user, a full disk.
StoredTasks ==
    {<<>>} \cup { Serialize(<<NewTask(f, generateId(0, 1), 0, 0)>>) :
                    f \in FormInputs }

InitLoad ==
    /\ tasks = <<>>
    /\ rendered = <<>>
    /\ storage \in {NoSlot} \cup
          { [present |-> TRUE, kind |-> k, json |-> j] :
              k \in SlotKinds, j \in StoredTasks }
    /\ phase = "mounted"
    /\ now = 0
    /\ call = NoCall
    /\ ui = InitialUI
    /\ dashboard = Dashboard(<<>>, 0)
    /\ list = TaskList(<<>>, InitialUI, 0)
    /\ download = NoDownload
    /\ background = NoTab

NextLoad == Next \/ RenderCrash

SpecLoad == InitLoad /\ [][NextLoad]_vars

\* ------------------------------------------------ sessions that browse
PayRentForm ==
    [title |-> Str(<<"P", "a", "y", " ", "r", "e", "n", "t">>),
     description |-> <<>>,
     startDate |-> [ymd |-> 1], dueDate |-> [ymd |-> 1],
     category |-> "personal", priority |-> "medium"]

ShoutedForm ==
    [title |-> Str(<<"B", "U", "Y", " ", "M", "I", "L", "K">>),
     description |-> Str(<<"O", "a", "t">>),
     startDate |-> [ymd |-> 0], dueDate |-> [ymd |-> 1],
     category |-> "shopping", priority |-> "high"]

\* Tasks as earlier sessions left them: created, then left alone, or moved
\* to 40% with the slider, or checked.
BuyMilk == NewTask(BuyMilkForm, generateId(0, 1), 0, 0)

WriteReport ==
    ProgressedTask(NewTask(WriteReportForm, generateId(0, 2), 0, 0), 40, 0)

PayRent == ToggledTask(NewTask(PayRentForm, generateId(0, 3), 0, 0), 0)

Shouted == ProgressedTask(NewTask(ShoutedForm, generateId(0, 4), 0, 0), 40, 0)

SampleTasks == {BuyMilk, WriteReport, PayRent, Shouted}

\* The collections of at most MaxListed of these tasks, in any order.
SampleCollections ==
    { ts \in UNION { [1..n -> SampleTasks] : n \in 0..MaxListed } :
        \A i, j \in DOMAIN ts : i # j => ts[i] # ts[j] }

\* What the user types into the search box.
Queries ==
    { <<>>, Str(<<"r", "e", "p">>), Str(<<"R", "E">>), Str(<<"o", "a">>) }

\* The session has loaded one of the collections and shows it.
InitView ==
    /\ tasks \in SampleCollections
    /\ rendered = tasks
    /\ storage = Slot(Serialize(tasks))
    /\ phase = "idle"
    /\ now = 0
    /\ call = [NoCall EXCEPT !.found = "array"]
    /\ ui = InitialUI
    /\ dashboard = Dashboard(tasks, 0)
    /\ list = TaskList(tasks, InitialUI, 0)
    /\ download = NoDownload
    /\ background = NoTab

SortBy == \E value \in SortOptions : setSortBy(value)

Search == \E value \in Queries : setSearchQuery(value)

FilterStatus == \E value \in StatusFilters : setFilterStatus(value)

\* The user searches, filters, sorts and exports.
NextView ==
    \/ SortBy
    \/ toggleSortOrder
    \/ Search
    \/ FilterStatus
    \/ handleExportTasks
    \/ Tick

SpecView == InitView /\ [][NextView]_vars

\* ------------------------------------------- sessions over a long list
\* The collection that an earlier session left in the slot: n tasks, of
\* which the first c were brought to 100% with the slider.
Collection(n, c) ==
    [i \in 1..n |->
        IF i <= c
          THEN ProgressedTask(
                   NewTask(BuyMilkForm, generateId(0, i), 0, 0), 100, 0)
          ELSE NewTask(BuyMilkForm, generateId(0, i), 0, 0)]

InitStats ==
    /\ tasks = <<>>
    /\ rendered = <<>>
    /\ storage \in { Slot(Serialize(Collection(p[1], p[2]))) :
                        p \in { q \in (0..MaxTotal) \X (0..MaxTotal) :
                                  q[2] <= q[1] } }
    /\ phase = "mounted"
    /\ now = 0
    /\ call = NoCall
    /\ ui = InitialUI
    /\ dashboard = Dashboard(<<>>, 0)
    /\ list = TaskList(<<>>, InitialUI, 0)
    /\ download = NoDownload
    /\ background = NoTab

\* The session only shows the collection.
NextStats ==
    \/ MountEffects
    \/ Render
    \/ Tick

SpecStats == InitStats /\ [][NextStats]_vars

\* --------------------------------------------------- sessions in two tabs
\* The user works in two tabs over the same slot; each instance loads once,
\* at its mount, and saves after each of its renders.
AddMilk == \E r \in 1..MaxRand : handleCreateTask(BuyMilkForm, r, now, now)

Trash == \E i \in 1..MaxTasks : onDelete(i, TRUE)

NextTabs ==
    \/ MountEffects
    \/ Render
    \/ AddMilk
    \/ Trash
    \/ OpenTab
    \/ SwitchTab

SpecTabs == Init /\ [][NextTabs]_vars

\* ------------------------------------- sessions over a task in progress
\* The slot as an earlier session left it: one task, brought to some value
\* below 100 with the slider.
InitToggle ==
    /\ tasks = <<>>
    /\ rendered = <<>>
    /\ storage \in
          { Slot(Serialize(<<ProgressedTask(
                                NewTask(WriteReportForm, generateId(0, 1), 0, 0),
                                p, 0)>>)) : p \in SliderValues \ {100} }
    /\ phase = "mounted"
    /\ now = 0
    /\ call = NoCall
    /\ ui = InitialUI
    /\ dashboard = Dashboard(<<>>, 0)
    /\ list = TaskList(<<>>, InitialUI, 0)
    /\ download = NoDownload
    /\ background = NoTab

Checkbox == \E i \in 1..MaxTasks : onToggleComplete(i)

\* The user checks and unchecks the checkbox of the card.
NextToggle ==
    \/ MountEffects
    \/ Render
    \/ Checkbox
    \/ Tick

SpecToggle == InitToggle /\ [][NextToggle]_vars

\* ------------------------------------------- sessions worked by the cards
Slide == \E i \in 1..MaxTasks, p \in SliderTried : onUpdateProgress(i, p)

\* The user creates tasks and works them with the controls of their cards
\* only: the checkbox, the slider where it is enabled, the trash button.
NextCard ==
    \/ MountEffects
    \/ Render
    \/ AddMilk
    \/ Checkbox
    \/ Slide
    \/ Trash

SpecCard == Init /\ [][NextCard]_vars

\* ------------------------------------- sessions with calls in one batch
\* A handler that is called while the re-render of an earlier setTasks is
\* still pending: React batches the updates, the handler is the closure of
\* the last render, so its `tasks` is `rendered`, and setTasks(value), which
\* is given a value and not an updater function, replaces the pending state.
InBatch(op, id, progress, value) ==
    /\ phase = "dirty"
    /\ tasks' = value
    /\ call' = Record(op, id, progress)
    /\ UNCHANGED <<rendered, storage, phase, now, screen, background>>

\* handleCreateTask (App.tsx:36-53) in a batch
CreateInBatch ==
    \E r \in 1..MaxRand :
        /\ Len(rendered) < MaxTasks
        /\ InBatch("create", generateId(now, r), 0,
                   AppendTask(rendered,
                              NewTask(BuyMilkForm, generateId(now, r), now, now)))

\* handleDeleteTask (App.tsx:55-59) in a batch, confirmed
TrashInBatch ==
    \E i \in 1..Len(list.sortedTasks) :
        LET id == list.sortedTasks[i].id IN
        InBatch("delete", id, 0, WithoutId(rendered, id))

\* handleToggleComplete (App.tsx:61-76) in a batch
CheckboxInBatch ==
    \E i \in 1..Len(list.sortedTasks) :
        LET id == list.sortedTasks[i].id IN
        InBatch("toggle", id, 0, ToggleAll(rendered, id, now))

\* handleUpdateProgress (App.tsx:78-93) in a batch
SlideInBatch ==
    \E i \in 1..Len(list.sortedTasks), p \in SliderTried :
        LET id == list.sortedTasks[i].id IN
        /\ ~list.sortedTasks[i].isCompleted
        /\ InBatch("progress", id, p, ProgressAll(rendered, id, p, now))

NextBatch ==
    \/ MountEffects
    \/ Render
    \/ AddMilk
    \/ Checkbox
    \/ Slide
    \/ Trash
    \/ CreateInBatch
    \/ TrashInBatch
    \/ CheckboxInBatch
    \/ SlideInBatch

SpecBatch == Init /\ [][NextBatch]_vars

TypeOK ==
    /\ phase \in {"mounted", "idle", "dirty", "unrenderable", "crashed"}
    /\ now \in Clock
    /\ Len(tasks) <= MaxTasks
    /\ \A i \in 1..Len(tasks) : tasks[i].completionPercentage \in SliderValues
\* ================================================================ claims
\* Helpers of the claims.  While phase = "dirty" after a handler call,
\* `rendered` is the collection the call was applied to and `tasks` is the
\* collection it produced.
Handled(op) == phase = "dirty" /\ call.op = op

Positions(ts) == 1..Len(ts)

HasId(ts, id) == \E i \in Positions(ts) : ts[i].id = id

\* The positions of ts up to j whose task does not have the id.
KeptUpTo(ts, id, j) == {k \in 1..j : ts[k].id # id}

\* C1: in every reachable state every task satisfies
\* completionPercentage = 100 <=> isCompleted = true <=> status = completed.
C1_CompletionConsistent ==
    \A i \in Positions(tasks) :
        /\ (tasks[i].completionPercentage = 100) <=> tasks[i].isCompleted
        /\ tasks[i].isCompleted <=> (tasks[i].status = "completed")

\* C2: in every reachable state every task satisfies
\* 0 < completionPercentage < 100 <=> status = in_progress, so that the
\* In Progress counter counts exactly the tasks that are 1-99% complete.
C2_InProgressIsPartial ==
    /\ \A i \in Positions(tasks) :
          (0 < tasks[i].completionPercentage
              /\ tasks[i].completionPercentage < 100)
          <=> (tasks[i].status = "in_progress")
    /\ inProgressTasks(tasks) =
          Cardinality({i \in Positions(tasks) :
                          tasks[i].completionPercentage \in 1..99})

\* C3: in every reachable state every task satisfies
\* completionPercentage = 0 <=> status = pending.
C3_PendingIsZero ==
    \A i \in Positions(tasks) :
        (tasks[i].completionPercentage = 0) <=> (tasks[i].status = "pending")

\* C3 witness: a task that was at 0% has been toggled complete and back.
C3_Witness ==
    /\ Handled("toggle")
    /\ call.times = 2
    /\ \E i \in Positions(call.before) :
          /\ call.before[i].id = call.id
          /\ call.before[i].completionPercentage = 0

\* C4: toggleComplete(id) flips isCompleted of a task with that id; when the
\* new value is true, completionPercentage = 100 and status = completed; when
\* it is false, completionPercentage keeps its prior value and status is
\* in_progress if that value is > 0, else pending; updatedAt is the time of
\* the call.
C4_ToggleEffect ==
    Handled("toggle") =>
        /\ Len(tasks) = Len(rendered)
        /\ \A i \in Positions(rendered) :
              rendered[i].id = call.id =>
                /\ tasks[i].isCompleted = ~rendered[i].isCompleted
                /\ tasks[i].isCompleted =>
                      /\ tasks[i].completionPercentage = 100
                      /\ tasks[i].status = "completed"
                /\ ~tasks[i].isCompleted =>
                      /\ tasks[i].completionPercentage =
                            rendered[i].completionPercentage
                      /\ tasks[i].status =
                            IF rendered[i].completionPercentage > 0
                              THEN "in_progress" ELSE "pending"
                /\ tasks[i].updatedAt = call.at

\* C4 witness: a completed task, last updated earlier, has been unchecked.
C4_Witness ==
    /\ Handled("toggle")
    /\ \E i \in Positions(rendered) :
          /\ rendered[i].id = call.id
          /\ rendered[i].isCompleted
          /\ rendered[i].updatedAt < call.at

\* C5: updateProgress(id, p) sets completionPercentage = p, status =
\* completed if p = 100, in_progress if 0 < p < 100, pending if p = 0, and
\* isCompleted = (p = 100), whatever the prior state of the task.
C5_ProgressEffect ==
    Handled("progress") =>
        /\ Len(tasks) = Len(rendered)
        /\ \A i \in Positions(rendered) :
              rendered[i].id = call.id =>
                /\ tasks[i].completionPercentage = call.progress
                /\ (call.progress = 100) => tasks[i].status = "completed"
                /\ (0 < call.progress /\ call.progress < 100) =>
                      tasks[i].status = "in_progress"
                /\ (call.progress = 0) => tasks[i].status = "pending"
                /\ tasks[i].isCompleted = (call.progress = 100)

\* C5 witness: the progress of a completed task has been set to 0.
C5_Witness ==
    /\ Handled("progress")
    /\ call.progress = 0
    /\ \E i \in Positions(rendered) :
          rendered[i].id = call.id /\ rendered[i].isCompleted

\* C6: create appends exactly one task at the end, leaves every existing
\* task unchanged and in its position, and the new task has
\* completionPercentage = 0, status = pending, isCompleted = false and
\* createdAt = updatedAt.
C6_CreateAppends ==
    Handled("create") =>
        /\ Len(tasks) = Len(rendered) + 1
        /\ \A i \in Positions(rendered) : tasks[i] = rendered[i]
        /\ LET new == tasks[Len(tasks)] IN
              /\ new.completionPercentage = 0
              /\ new.status = "pending"
              /\ new.isCompleted = FALSE
              /\ new.createdAt = new.updatedAt

C8_MissingIdNoOp ==
    (/\ phase = "dirty"
     /\ call.op \in {"delete", "toggle", "progress"}
     /\ ~HasId(rendered, call.id))
        => tasks = rendered

\* C8 witness: toggleComplete has been called with an id that none of the
\* two tasks of the collection has.
C8_Witness ==
    /\ Handled("toggle")
    /\ Len(rendered) = 2
    /\ ~HasId(rendered, call.id)

\* C9: applying toggleComplete(id) twice returns isCompleted of the tasks
\* with that id to its original value, and id, title and createdAt of these
\* tasks are the same after each application.
C9_ToggleInvolution ==
    Handled("toggle") =>
        /\ Len(tasks) = Len(rendered)
        /\ \A i \in Positions(rendered) :
              rendered[i].id = call.id =>
                /\ tasks[i].id = rendered[i].id
                /\ tasks[i].title = rendered[i].title
                /\ tasks[i].createdAt = rendered[i].createdAt
                /\ (call.times = 2) =>
                      /\ Len(call.before) = Len(tasks)
                      /\ tasks[i].isCompleted = call.before[i].isCompleted
                      /\ tasks[i].id = call.before[i].id
                      /\ tasks[i].title = call.before[i].title
                      /\ tasks[i].createdAt = call.before[i].createdAt

\* C9 witness: a task that was not completed has been toggled twice.
C9_Witness ==
    /\ Handled("toggle")
    /\ call.times = 2
    /\ \E i \in Positions(call.before) :
          /\ call.before[i].id = call.id
          /\ ~call.before[i].isCompleted
          /\ call.before[i].completionPercentage \in 1..99

\* C10: in every reachable state no two tasks of the collection have the
\* same id.
C10_UniqueIds ==
    \A i, j \in Positions(tasks) : i # j => tasks[i].id # tasks[j].id

C12_MutationsPersisted ==
    phase = "idle" =>
        /\ storage.present
        /\ storage.kind = "array"
        /\ Len(storage.json) = Len(tasks)
        /\ \A i \in Positions(tasks) :
              /\ storage.json[i].startDate = <<"iso", tasks[i].startDate>>
              /\ storage.json[i].dueDate = <<"iso", tasks[i].dueDate>>
              /\ storage.json[i].createdAt = <<"iso", tasks[i].createdAt>>
              /\ storage.json[i].updatedAt = <<"iso", tasks[i].updatedAt>>
              /\ \A k \in {"id", "title", "description", "completionPercentage",
                            "status", "category", "priority", "isCompleted"} :
                    storage.json[i][k] = tasks[i][k]

\* C12 witness: a confirmed delete has removed a task, another remains and
\* the save effect has run.
C12_Witness ==
    /\ phase = "idle"
    /\ call.op = "delete"
    /\ Len(call.before) = 2
    /\ Len(tasks) = 1

\* C13: when the slot is absent, or its content is invalid JSON, JSON that is
\* not an array or an array with a null entry, the session starts with the
\* empty collection and is usable.
C13_LoadNeverRaises ==
    (call.op = "none"
        /\ call.found \in {"absent", "garbage", "other", "nullentry"}) =>
        /\ phase = "idle"
        /\ tasks = <<>>
        /\ rendered = <<>>
        /\ ENABLED Create

\* C13 witness: the session has started over an array with a null entry
\* besides a task object.
C13_Witness ==
    /\ call.op = "none"
    /\ call.found = "nullentry"
    /\ phase = "idle"
    /\ storage = Slot(<<>>)

\* C14: the dashboard shows completionPercentage = round(completedTasks /
\* totalTasks * 100) with halves rounded up, that is
\* floor((200 * completedTasks + totalTasks) / (2 * totalTasks)), when the
\* collection is not empty, and 0 when it is empty; the value is an integer
\* in 0..100.
C14_HalfUpPercentage ==
    LET totalTasks == Len(rendered)
        completedTasks ==
            Cardinality({i \in Positions(rendered) : rendered[i].isCompleted})
    IN  /\ dashboard.stats.completionPercentage \in 0..100
        /\ dashboard.stats.completionPercentage =
              IF totalTasks = 0 THEN 0
              ELSE (200 * completedTasks + totalTasks) \div (2 * totalTasks)

\* The counters of the dashboard, counted on a collection.
Counted(ts) ==
    [ totalTasks |-> Len(ts),
      completedTasks |->
          Cardinality({i \in Positions(ts) : ts[i].isCompleted}),
      inProgressTasks |->
          Cardinality({i \in Positions(ts) : ts[i].status = "in_progress"}),
      pendingTasks |->
          Cardinality({i \in Positions(ts) : ts[i].status = "pending"}) ]

\* C15: the statistics give totalTasks = the number of tasks, completedTasks
\* = the number of tasks with isCompleted true, inProgressTasks = the number
\* with status in_progress and pendingTasks = the number with status
\* pending; once a mutation has been rendered they are these counts over the
\* new collection, and updateProgress(id, 100) on the one task with that id,
\* an incomplete one, has raised completedTasks by exactly 1.
C15_CountersCount ==
    /\ \A k \in DOMAIN Counted(rendered) :
          dashboard.stats[k] = Counted(rendered)[k]
    /\ (phase = "idle"
          /\ call.op \in {"create", "delete", "toggle", "progress"}) =>
          \A k \in DOMAIN Counted(tasks) :
              dashboard.stats[k] = Counted(tasks)[k]
    /\ (phase = "idle" /\ call.op = "progress" /\ call.progress = 100
          /\ call.times = 1
          /\ Cardinality({i \in Positions(call.before) :
                            call.before[i].id = call.id}) = 1
          /\ \E i \in Positions(call.before) :
                /\ call.before[i].id = call.id
                /\ ~call.before[i].isCompleted) =>
          dashboard.stats.completedTasks =
              Counted(call.before).completedTasks + 1

\* C15 witness: of two tasks one was completed; the slider of the other has
\* been moved to 100 and the dashboard shows two completed tasks.
C15_Witness ==
    /\ phase = "idle"
    /\ call.op = "progress" /\ call.progress = 100 /\ call.times = 1
    /\ Len(call.before) = 2
    /\ Counted(call.before).completedTasks = 1
    /\ \E i \in Positions(call.before) :
          call.before[i].id = call.id /\ ~call.before[i].isCompleted
    /\ dashboard.stats.completedTasks = 2

\* C16: overdueTasks, evaluated at a time `now`, is the number of tasks with
\* isCompleted false and dueDate strictly earlier than now, which is the
\* number of tasks for which isTaskOverdue, evaluated at that time, is true;
\* a completed task is never overdue and a past-due incomplete task always
\* is.
C16_OverdueCount ==
    /\ dashboard.stats.overdueTasks =
          Cardinality({i \in Positions(rendered) :
                         ~rendered[i].isCompleted
                            /\ rendered[i].dueDate < dashboard.at})
    /\ \A i \in Positions(list.sortedTasks) :
          LET task == list.sortedTasks[i] IN
          /\ task.isCompleted => ~list.isOverdue[i]
          /\ (~task.isCompleted /\ task.dueDate < list.at) => list.isOverdue[i]
          /\ (~task.isCompleted /\ ~(task.dueDate < list.at)) =>
                ~list.isOverdue[i]
    /\ (list.at = dashboard.at /\ Len(list.sortedTasks) = Len(rendered)) =>
          dashboard.stats.overdueTasks =
              Cardinality({i \in Positions(list.sortedTasks) :
                             list.isOverdue[i]})

\* C16 witness: two tasks are past due, one of them completed, and the
\* dashboard shows one overdue task.
C16_Witness ==
    /\ phase = "idle"
    /\ Len(rendered) = 2
    /\ \A i \in Positions(rendered) : rendered[i].dueDate < dashboard.at
    /\ \E i \in Positions(rendered) : rendered[i].isCompleted
    /\ \E i \in Positions(rendered) : ~rendered[i].isCompleted
    /\ dashboard.stats.overdueTasks = 1

\* Two code units are the same letter, whatever the case.
SameLetter(a, b) ==
    \/ a = b
    \/ a \in 65..90 /\ b = a + 32
    \/ b \in 65..90 /\ a = b + 32

\* The string contains the query somewhere, case set aside.
Contains(str, query) ==
    \E k \in 0..(Len(str) - Len(query)) :
        \A j \in 1..Len(query) : SameLetter(str[k + j], query[j])

\* The task passes the search box and the status selector.
Selected(task) ==
    /\ Contains(task.title, ui.searchQuery)
          \/ Contains(task.description, ui.searchQuery)
    /\ ui.filterStatus = "all" \/ task.status = ui.filterStatus

\* C17: the view contains exactly the tasks of the collection whose title
\* or description contains the query case-insensitively (the empty query
\* matches every task) and whose status is the selected one (every status
\* when the selector is "all"); no task outside the collection appears.
C17_FilteredView ==
    LET view == list.sortedTasks IN
    /\ \A i \in Positions(rendered) :
          Selected(rendered[i]) <=>
              \E k \in Positions(view) : view[k] = rendered[i]
    /\ \A k \in Positions(view) :
          \E i \in Positions(rendered) : view[k] = rendered[i]
    /\ Len(view) =
          Cardinality({i \in Positions(rendered) : Selected(rendered[i])})
    /\ ui.searchQuery = <<>> =>
          \A i \in Positions(rendered) :
              (ui.filterStatus = "all"
                  \/ rendered[i].status = ui.filterStatus) =>
                \E k \in Positions(view) : view[k] = rendered[i]

\* C17 witness: the query "rep" over Buy milk, Write report, Pay rent shows
\* Write report only.
C17_Witness ==
    /\ rendered = <<BuyMilk, WriteReport, PayRent>>
    /\ ui.searchQuery = Str(<<"r", "e", "p">>)
    /\ ui.filterStatus = "all"
    /\ list.sortedTasks = <<WriteReport>>

\* The priorities in the order that "ascending" lists them.
HighToLow == <<"high", "medium", "low">>

PlaceOf(priority) == CHOOSE k \in DOMAIN HighToLow : HighToLow[k] = priority

\* C18: sorted by priority, the view lists the tasks high, then medium, then
\* low when the order is ascending, and low, then medium, then high when it
\* is descending.
C18_PriorityOrder ==
    LET view == list.sortedTasks IN
    ui.sortBy = "priority" =>
        \A i, j \in Positions(view) :
            i < j =>
                IF ui.sortOrder = "asc"
                  THEN PlaceOf(view[i].priority) <= PlaceOf(view[j].priority)
                  ELSE PlaceOf(view[i].priority) >= PlaceOf(view[j].priority)

\* C18 witness: by priority ascending, Buy milk (low), Write report (high),
\* Pay rent (medium) are listed Write report, Pay rent, Buy milk.
C18_Witness ==
    /\ rendered = <<BuyMilk, WriteReport, PayRent>>
    /\ ui.sortBy = "priority" /\ ui.sortOrder = "asc"
    /\ list.sortedTasks = <<WriteReport, PayRent, BuyMilk>>

\* The lower-cased title, for the comparison of titles.
Folded(str) ==
    [i \in 1..Len(str) |-> IF str[i] \in 65..90 THEN str[i] + 32 ELSE str[i]]

\* a comes before b in the dictionary, or is b.
LexLeq(a, b) ==
    \E k \in 0..Len(a) :
        /\ k <= Len(b)
        /\ \A j \in 1..k : a[j] = b[j]
        /\ k = Len(a) \/ (k < Len(b) /\ a[k + 1] < b[k + 1])

\* The key of the first task is at most the key of the second.
KeyLeq(a, b) ==
    CASE ui.sortBy = "alphabetical" -> LexLeq(Folded(a.title), Folded(b.title))
      [] ui.sortBy = "start_date" -> a.startDate <= b.startDate
      [] ui.sortBy = "due_date" -> a.dueDate <= b.dueDate
      [] ui.sortBy = "completion" ->
            a.completionPercentage <= b.completionPercentage

\* C19: for the keys alphabetical (lower-cased title), start_date, due_date
\* and completion, sortTasks returns a permutation of its input in which the
\* keys are non-decreasing when the order is asc and non-increasing when it
\* is desc.
C19_SortedByKey ==
    LET input == list.filteredTasks
        output == list.sortedTasks
    IN  ui.sortBy \in {"alphabetical", "start_date", "due_date", "completion"}
        =>
        /\ Len(output) = Len(input)
        /\ \E p \in Permutations(Positions(input)) :
              \A i \in Positions(input) : output[i] = input[p[i]]
        /\ \A i, j \in Positions(output) :
              i < j => IF ui.sortOrder = "asc"
                         THEN KeyLeq(output[i], output[j])
                         ELSE KeyLeq(output[j], output[i])

\* C19 witness: three tasks with three progress values are listed by
\* completion, descending, in an order that is not the order of insertion.
C19_Witness ==
    /\ ui.sortBy = "completion" /\ ui.sortOrder = "desc"
    /\ list.filteredTasks = <<BuyMilk, WriteReport, PayRent>>
    /\ list.sortedTasks = <<PayRent, WriteReport, BuyMilk>>

\* A step of the read side: a change of the search, the filter or the sort,
\* which computes the view again, or an export.
ReadSide ==
    \/ SortBy
    \/ toggleSortOrder
    \/ Search
    \/ FilterStatus
    \/ handleExportTasks

C21_LastSaveWins ==
    storage.present =>
        \/ storage.json = Serialize(rendered)
        \/ /\ background.open
           /\ storage.json = Serialize(background.rendered)

\* C21 witness: both sessions have rendered and saved; the last call of
\* this session created a task, which this session still shows, and the
\* slot, written since by the other session, lacks it.
C21_Witness ==
    /\ background.open
    /\ phase = "idle" /\ background.phase = "idle"
    /\ call.op = "create"
    /\ HasId(rendered, call.id)
    /\ storage.present
    /\ ~HasId(storage.json, call.id)
    /\ storage.json = Serialize(background.rendered)

\* The fields that toggleComplete and updateProgress never write.
SameIdentity(a, b) ==
    /\ a.id = b.id /\ a.title = b.title /\ a.description = b.description
    /\ a.startDate = b.startDate /\ a.dueDate = b.dueDate
    /\ a.category = b.category /\ a.priority = b.priority
    /\ a.createdAt = b.createdAt

\* C22: toggleComplete(id) and updateProgress(id, p) change only
\* isCompleted, completionPercentage, status and updatedAt of the task with
\* that id; its other fields, every other task, and the length and the
\* insertion order of the collection stay as they were.
C22_MutationFrame ==
    (Handled("toggle") \/ Handled("progress")) =>
        /\ Len(tasks) = Len(rendered)
        /\ \A i \in Positions(rendered) :
              IF rendered[i].id = call.id
                THEN SameIdentity(tasks[i], rendered[i])
                ELSE tasks[i] = rendered[i]

\* C22 witness: the slider of the first of two tasks has been moved: the
\* first task has changed, the second has another id.
C22_Witness ==
    /\ Handled("progress")
    /\ Len(rendered) = 2
    /\ rendered[1].id = call.id /\ rendered[2].id # call.id
    /\ tasks[1] # rendered[1]

DerivedStatus(task) ==
    IF task.isCompleted THEN "completed"
    ELSE IF task.completionPercentage > 0 THEN "in_progress"
    ELSE "pending"

Completed(task) ==
    /\ task.isCompleted
    /\ task.completionPercentage = 100
    /\ task.status = "completed"

\* C25: through the task card, updateProgress is issued only for a task
\* whose isCompleted is false, so a completed task keeps
\* completionPercentage = 100 and status = completed until toggleComplete
\* or delete is applied to it: a move of a slider and a creation leave
\* every completed task as it is.
C25_CompletedStaysCompleted ==
    /\ \A i \in Positions(tasks) : tasks[i].isCompleted => Completed(tasks[i])
    /\ Handled("progress") =>
          /\ \E i \in Positions(rendered) :
                rendered[i].id = call.id /\ ~rendered[i].isCompleted
          /\ \A i \in Positions(rendered) :
                rendered[i].isCompleted => Completed(tasks[i])
    /\ Handled("create") =>
          \A i \in Positions(rendered) :
              rendered[i].isCompleted => Completed(tasks[i])

\* C26: from the start of a session until the first user mutation, each
\* value written to the slot is the serialization of the collection that
\* was stored there when the session started; the save effect of the first
\* render does not put the initial empty collection in its place.  (`call`
\* is "reload" from the start of a later session to its first handler
\* call, and call.before is the collection the slot held at that start.)
C26_StoredTasksKept ==
    call.op = "reload" =>
        /\ storage.present
        /\ storage.json = Serialize(call.before)

\* The collection that the intent recorded in `last` makes of ts.
Applied(last, ts, result) ==
    CASE last.op = "create" ->
            /\ Len(result) = Len(ts) + 1
            /\ SubSeq(result, 1, Len(ts)) = ts
            /\ result[Len(result)].id = last.id
      [] last.op = "delete" -> result = WithoutId(ts, last.id)
      [] last.op = "toggle" -> result = ToggleAll(ts, last.id, last.at)
      [] last.op = "progress" ->
            result = ProgressAll(ts, last.id, last.progress, last.at)

C28_CountersPartition ==
    /\ dashboard.stats.completedTasks + dashboard.stats.inProgressTasks
          + dashboard.stats.pendingTasks = dashboard.stats.totalTasks
    /\ LET stats == calculateTaskStats(tasks, now) IN
          stats.completedTasks + stats.inProgressTasks + stats.pendingTasks
              = stats.totalTasks
    /\ \A i \in Positions(tasks) :
          tasks[i].status = "completed" <=> tasks[i].isCompleted

\* C28 witness: the dashboard shows two tasks, one completed and one in
\* progress, the latter a task at 100% whose checkbox was unchecked.
C28_Witness ==
    /\ phase = "idle"
    /\ dashboard.stats.totalTasks = 2
    /\ dashboard.stats.completedTasks = 1
    /\ dashboard.stats.inProgressTasks = 1
    /\ \E i \in Positions(rendered) :
          /\ ~rendered[i].isCompleted
          /\ rendered[i].completionPercentage = 100
====
